---- MODULE Spec2Model ----
(***************************************************************************)
(* The frame-presentation pipeline of the asteroids toy: the winit event   *)
(* loop of src/main.rs driving Renderer::redraw and                        *)
(* Renderer::recreate_swapchain of src/renderer.rs.                        *)
(*                                                                         *)
(* The application is single threaded: one event-loop callback runs at a   *)
(* time, so a window event is handled only while no redraw is in progress  *)
(* (pc = "idle").  A redraw call is followed step by step through pc.      *)
(* The platform (window system, Vulkan driver) is the environment: the     *)
(* result of every platform call the code matches on is chosen             *)
(* nondeterministically among the variants the code distinguishes.         *)
(* Resource-allocation failures behind the remaining unwrap() calls        *)
(* (command-buffer builder, buffer allocation, then_execute) are not       *)
(* modelled.                                                               *)
(***************************************************************************)
EXTENDS Integers, Sequences, FiniteSets, TLC

\* Window widths and heights range over 0..MaxDim.
MaxDim == 1

\* Number of redraw calls followed.
MaxFrames == 2

\* caps.min_image_count, the number of images of every swapchain.
MinImageCount == 2

\* The number of asteroids of the game state.
NumAsteroids == 1

\* Number of update calls followed (the ship needs some 4000 ticks of
\* acceleration to get faster than one screen width per tick).
MaxTicks == 4100

\* Keyboard events are followed during the first MaxKeyTicks ticks.
MaxKeyTicks == 2

\* Positions and velocities are fixed-point integers in units of 0.0005/Accel:
\* Accel stands for the 0.0005 added to the velocity per tick, One for 1.0.
Accel == 1000

One == 2000000

\* The degrees the ship turns per tick.
RotStep == 5

VARIABLES
    windowSize,          \* surface.window().inner_size(), <<width, height>>
    swapchain,           \* Renderer.swapchain
    images,              \* Renderer.images
    framebuffers,        \* Renderer.framebuffers
    viewport,            \* Renderer.dynamic_state.viewports
    recreate_swapchain,  \* Renderer.recreate_swapchain
    previous_frame_end,  \* Renderer.previous_frame_end
    pc,                  \* position of the event loop / of the running redraw
    image_num,           \* redraw's local image_num (-1 outside its scope)
    command_buffer,      \* redraw's local command_buffer
    nextFuture,          \* identity of the next future object created
    nextGen,             \* identity of the next swapchain created
    call,                \* history of the current (or last) redraw call
    gpu,                 \* the submissions made to the queue, in order
    game_state           \* main's game_state

vars == <<windowSize, swapchain, images, framebuffers, viewport,
          recreate_swapchain, previous_frame_end, pc, image_num,
          command_buffer, nextFuture, nextGen, call, gpu, game_state>>

renderer == <<swapchain, images, framebuffers, viewport,
              recreate_swapchain, previous_frame_end>>

locals == <<image_num, command_buffer>>

Sizes == (0..MaxDim) \X (0..MaxDim)

----------------------------------------------------------------------------
(* Values *)

\* Option::None of previous_frame_end.
NoFuture == [kind |-> "None", id |-> 0]

\* sync::now(device).boxed(): a new future object that is already complete.
Now(id) == [kind |-> "now", id |-> id]

\* The boxed future of a flushed submission: signalled by its fence.
FenceSignalFuture(id) == [kind |-> "fence", id |-> id]

NoImage == [gen |-> -1, index |-> -1, dimensions |-> <<0, 0>>]

\* No command buffer built (yet) in this call.
NoCommandBuffer == [framebuffer |-> [image |-> NoImage], built |-> FALSE]

RECURSIVE Ulp(_, _)
\* Spacing of the f32 values around n >= 2^24 (u is the candidate spacing).
Ulp(n, u) == IF n < 16777216 * u THEN u ELSE Ulp(n, 2 * u)

\* `n as f32` for a u32 n: exact up to 2^24, above it rounded to the nearest
\* multiple of the spacing, ties to the even multiple.
AsF32(n) ==
    IF n < 16777216 THEN n
    ELSE LET u  == Ulp(n, 1)
             lo == (n \div u) * u
             r  == n - lo
         IN  IF 2 * r < u THEN lo
             ELSE IF 2 * r > u THEN lo + u
             ELSE IF (lo \div u) % 2 = 0 THEN lo ELSE lo + u

\* The images of swapchain generation gen: all of the swapchain's dimensions.
SwapchainImages(gen, dimensions) ==
    [i \in 1..MinImageCount |-> [gen |-> gen, index |-> i - 1, dimensions |-> dimensions]]

\* Swapchain::new / recreate_with_dimensions returning Ok: a new swapchain of
\* the requested dimensions and its images.
NewSwapchain(gen, dimensions) ==
    [swapchain |-> [gen |-> gen, dimensions |-> dimensions, outOfDate |-> FALSE],
     images    |-> SwapchainImages(gen, dimensions)]

\* window_size_dependent_setup: the viewport takes the dimensions of the first
\* image, and there is one framebuffer per image, in order.
window_size_dependent_setup(imgs) ==
    LET dimensions == imgs[1].dimensions
    IN  [viewport     |-> <<AsF32(dimensions[1]), AsF32(dimensions[2])>>,
         framebuffers |-> [i \in 1..Len(imgs) |-> [image |-> imgs[i]]]]

\* render: the batches main passes to redraw, the ships (one instance) and
\* the asteroids (one instance per asteroid).
render ==
    LET ships     == <<"ship">>
        asteroids == [i \in 1..NumAsteroids |-> "asteroid"]
    IN  <<ships, asteroids>>

\* The draw calls redraw records for its argument: a single draw, whose
\* instance buffer holds one element per element of data.
Draws(data) == <<[instances |-> Len(data)]>>

\* The game state main starts with: the ship at (0.5, 0.5), at rest, and the
\* asteroids at the origin, at rest.
InitialState ==
    [x |-> One \div 2, y |-> One \div 2, vel_x |-> 0, vel_y |-> 0,
     accel |-> FALSE, angle |-> 0, rot |-> "No",
     asteroids |-> [i \in 1..NumAsteroids |->
                      [x |-> 0, y |-> 0, vel_x |-> 0, vel_y |-> 0, angle |-> 0]]]

\* Accel * sin(d) for d = 0, 5, .., 90 degrees, rounded to the nearest unit.
SinTable ==
    <<0, 87, 174, 259, 342, 423, 500, 574, 643, 707, 766, 819, 866, 906, 940,
      966, 985, 996, 1000>>

\* angle.to_radians().sin() * 0.0005 and .cos() * 0.0005, for an angle of a
\* whole multiple of RotStep degrees in 0..359.
Sin(d) ==
    CASE d <= 90  -> SinTable[(d \div RotStep) + 1]
      [] d <= 180 -> SinTable[((180 - d) \div RotStep) + 1]
      [] d <= 270 -> 0 - SinTable[((d - 180) \div RotStep) + 1]
      [] OTHER    -> 0 - SinTable[((360 - d) \div RotStep) + 1]

Cos(d) == Sin((d + 90) % 360)

\* The wrap update applies to a coordinate: one screen width, once.
Wrap(v) ==
    IF v > One THEN v - 2 * One
    ELSE IF v < 0 - One THEN v + 2 * One
    ELSE v

\* update: the ship turns, accelerates along its heading, moves and is
\* wrapped; the asteroids move and are wrapped.  The angle is kept modulo
\* 360 degrees.
update(st) ==
    LET angle == CASE st.rot = "Left"  -> (st.angle + RotStep) % 360
                   [] st.rot = "Right" -> (st.angle - RotStep) % 360
                   [] OTHER            -> st.angle
        vel_x == IF st.accel THEN st.vel_x + Sin(angle) ELSE st.vel_x
        vel_y == IF st.accel THEN st.vel_y + Cos(angle) ELSE st.vel_y
    IN  [st EXCEPT
           !.angle = angle,
           !.vel_x = vel_x,
           !.vel_y = vel_y,
           !.x = Wrap(st.x - vel_x),
           !.y = Wrap(st.y - vel_y),
           !.asteroids = [i \in 1..Len(st.asteroids) |->
                            [st.asteroids[i] EXCEPT
                               !.x = Wrap(@ + st.asteroids[i].vel_x),
                               !.y = Wrap(@ + st.asteroids[i].vel_y)]]]

\* The KeyboardInput arm of the event loop: A and F turn the ship while
\* held, D accelerates it while held; other keys change nothing.
KeyChange(st, key, state) ==
    IF state = "Pressed"
    THEN CASE key = "A" -> [st EXCEPT !.rot = "Left"]
           [] key = "F" -> [st EXCEPT !.rot = "Right"]
           [] key = "D" -> [st EXCEPT !.accel = TRUE]
           [] OTHER     -> st
    ELSE CASE key = "A" -> [st EXCEPT !.rot = "No"]
           [] key = "F" -> [st EXCEPT !.rot = "No"]
           [] key = "D" -> [st EXCEPT !.accel = FALSE]
           [] OTHER     -> st

\* The history of a redraw call at its entry.  n counts the calls; prevAcquire
\* is what acquire reported in the call before.
NewCall ==
    [n             |-> call.n + 1,
     flagAtEntry   |-> recreate_swapchain,
     futureAtEntry |-> previous_frame_end,
     prevAcquire   |-> call.acquire,
     recreate      |-> "None",
     acquire       |-> "None",
     flush         |-> "None",
     ops           |-> <<>>,
     acquired      |-> -1,
     staleAtSubmit |-> FALSE,
     presented     |-> NoImage,
     data          |-> <<>>,
     recorded      |-> NoImage,
     draws         |-> <<>>]

\* The swapchain is stale: it was reported out-of-date, or its size differs
\* from the window's.
Stale == swapchain.outOfDate \/ swapchain.dimensions # windowSize

----------------------------------------------------------------------------
(* Renderer::new and the start of main *)

Init ==
    /\ windowSize \in Sizes
    /\ LET new   == NewSwapchain(0, windowSize)
           setup == window_size_dependent_setup(new.images)
       IN  /\ swapchain = new.swapchain
           /\ images = new.images
           /\ framebuffers = setup.framebuffers
           /\ viewport = setup.viewport
    /\ recreate_swapchain = FALSE
    /\ previous_frame_end = Now(0)
    /\ pc = "idle"
    /\ image_num = -1
    /\ command_buffer = NoCommandBuffer
    /\ nextFuture = 1
    /\ nextGen = 1
    /\ call = [n |-> 0, flagAtEntry |-> FALSE, futureAtEntry |-> NoFuture,
               prevAcquire |-> "None", recreate |-> "None", acquire |-> "None",
               flush |-> "None", ops |-> <<>>, acquired |-> -1,
               staleAtSubmit |-> FALSE, presented |-> NoImage,
               data |-> <<>>, recorded |-> NoImage, draws |-> <<>>]
    /\ gpu = <<>>
    /\ game_state = InitialState

----------------------------------------------------------------------------
(* The event-loop callback of main *)

\* Resized giving the swapchain the new size at once.
Resized_Rebuilds(size) ==
    /\ pc = "idle"
    /\ call.n < MaxFrames
    /\ windowSize' = size
    /\ recreate_swapchain' = TRUE
    /\ swapchain' = [swapchain EXCEPT !.dimensions = size]
    /\ UNCHANGED <<images, framebuffers, viewport, previous_frame_end, pc,
                   locals, nextFuture, nextGen, call, gpu, game_state>>

\* Resized with the assignment of the flag left out.
Resized_NoFlag(size) ==
    /\ pc = "idle"
    /\ call.n < MaxFrames
    /\ windowSize' = size
    /\ UNCHANGED <<renderer, pc, locals, nextFuture, nextGen, call, gpu, game_state>>

\* WindowEvent::Resized(_): the window has a new inner size; the handler only
\* sets the flag.  Resizes are followed as long as a redraw call is to come.
Resized(size) ==
    /\ pc = "idle"
    /\ call.n < MaxFrames
    /\ windowSize' = size
    /\ recreate_swapchain' = TRUE
    /\ UNCHANGED <<swapchain, images, framebuffers, viewport,
                   previous_frame_end, pc, locals, nextFuture, nextGen, call,
                   gpu, game_state>>

\* WindowEvent::CloseRequested: ControlFlow::Exit ends the loop.
CloseRequested ==
    /\ pc = "idle"
    /\ pc' = "exited"
    /\ UNCHANGED <<windowSize, renderer, locals, nextFuture, nextGen, call, gpu, game_state>>

\* Event::RedrawEventsCleared: redraw is entered; its first statement unwraps
\* previous_frame_end to clean up finished resources.
RedrawEventsCleared ==
    /\ pc = "idle"
    /\ call.n < MaxFrames
    /\ pc' = IF previous_frame_end = NoFuture THEN "aborted" ELSE "entered"
    /\ call' = [NewCall EXCEPT !.ops = <<"cleanup">>, !.data = render]
    /\ UNCHANGED <<windowSize, renderer, locals, nextFuture, nextGen, gpu>>
    /\ game_state' = update(game_state)

----------------------------------------------------------------------------
(* Renderer::recreate_swapchain, called from redraw when the flag is set *)

\* Recreated leaving the framebuffers of the old swapchain in place.
Recreated_KeepFramebuffers(new) ==
    LET setup == window_size_dependent_setup(new.images)
    IN  [swapchain          |-> new.swapchain,
         framebuffers       |-> framebuffers,
         viewport           |-> setup.viewport,
         recreate_swapchain |-> FALSE]

\* Recreated building the framebuffers from the images field instead of the
\* new images.
Recreated_StaleImages(new) ==
    LET setup == window_size_dependent_setup(images)
    IN  [swapchain          |-> new.swapchain,
         framebuffers       |-> setup.framebuffers,
         viewport           |-> setup.viewport,
         recreate_swapchain |-> FALSE]

\* Recreated leaving the flag set.
Recreated_FlagKept(new) ==
    LET setup == window_size_dependent_setup(new.images)
    IN  [swapchain          |-> new.swapchain,
         framebuffers       |-> setup.framebuffers,
         viewport           |-> setup.viewport,
         recreate_swapchain |-> recreate_swapchain]

\* The renderer fields after recreate_with_dimensions returned Ok(new).
Recreated(new) ==
    LET setup == window_size_dependent_setup(new.images)
    IN  [swapchain          |-> new.swapchain,
         framebuffers       |-> setup.framebuffers,
         viewport           |-> setup.viewport,
         recreate_swapchain |-> FALSE]

\* NotRecreated with the flag cleared before the result is matched.
NotRecreated_FlagCleared ==
    [swapchain          |-> swapchain,
     framebuffers       |-> framebuffers,
     viewport           |-> viewport,
     recreate_swapchain |-> FALSE]

\* The renderer fields after recreate_with_dimensions returned an error.
NotRecreated ==
    [swapchain          |-> swapchain,
     framebuffers       |-> framebuffers,
     viewport           |-> viewport,
     recreate_swapchain |-> recreate_swapchain]

\* Where redraw continues after its call of recreate_swapchain():
\* UnsupportedDimensions returns from recreate_swapchain() only, so redraw
\* goes on to acquire; any other error panics.
AfterRecreate(result) ==
    IF result \in {"Ok", "UnsupportedDimensions"} THEN "acquire" ELSE "aborted"

\* NeedsRecreate comparing the sizes instead of reading the flag.
NeedsRecreate_SizeDiffers == swapchain.dimensions # windowSize

\* The test redraw makes before it calls recreate_swapchain().
NeedsRecreate == recreate_swapchain

RecreateSwapchain(result) ==
    /\ pc = "entered"
    /\ NeedsRecreate
    /\ LET dimensions == windowSize
           r == IF result = "Ok"
                THEN Recreated(NewSwapchain(nextGen, dimensions))
                ELSE NotRecreated
       IN  /\ swapchain' = r.swapchain
           /\ framebuffers' = r.framebuffers
           /\ viewport' = r.viewport
           /\ recreate_swapchain' = r.recreate_swapchain
    /\ nextGen' = IF result = "Ok" THEN nextGen + 1 ELSE nextGen
    /\ pc' = AfterRecreate(result)
    /\ call' = [call EXCEPT !.recreate = result, !.ops = Append(@, "recreate")]
    /\ UNCHANGED <<windowSize, images, previous_frame_end, locals, nextFuture,
                   gpu, game_state>>

\* The flag is not set: redraw goes straight to acquire.
SkipRecreate ==
    /\ pc = "entered"
    /\ ~NeedsRecreate
    /\ pc' = "acquire"
    /\ UNCHANGED <<windowSize, renderer, locals, nextFuture, nextGen, call, gpu, game_state>>

----------------------------------------------------------------------------
(* Renderer::redraw from acquire on *)

\* FlagAfterAcquire setting the flag after every acquire.
FlagAfterAcquire_Always(suboptimal) == TRUE

\* FlagAfterAcquire ignoring suboptimal.
FlagAfterAcquire_IgnoreSuboptimal(suboptimal) == recreate_swapchain

\* The flag after a successful acquire.
FlagAfterAcquire(suboptimal) == recreate_swapchain \/ suboptimal

\* AfterAcquire panicking on OutOfDate like on the other errors.
AfterAcquire_PanicOnOutOfDate(result) ==
    IF result = "Ok" THEN "record" ELSE "aborted"

\* AfterAcquire going on to the submission after OutOfDate instead of
\* returning.
AfterAcquire_GoesOnOutOfDate(result) ==
    CASE result = "Ok"        -> "record"
      [] result = "OutOfDate" -> "submit"
      [] OTHER                -> "aborted"

\* Where redraw continues after acquire_next_image.
AfterAcquire(result) ==
    CASE result = "Ok"        -> "record"
      [] result = "OutOfDate" -> "idle"
      [] OTHER                -> "aborted"

\* FlagAfterAcquireError dropping the frame without setting the flag.
FlagAfterAcquireError_NotSet(result) == recreate_swapchain

\* The flag after acquire_next_image failed with an error that returns.
FlagAfterAcquireError(result) ==
    IF result = "OutOfDate" THEN TRUE ELSE recreate_swapchain

AcquireNextImage(result, n, suboptimal) ==
    /\ pc = "acquire"
    /\ pc' = AfterAcquire(result)
    /\ IF result = "Ok"
       THEN /\ image_num' = n
            /\ recreate_swapchain' = FlagAfterAcquire(suboptimal)
            /\ swapchain' = swapchain
            /\ call' = [call EXCEPT
                          !.acquire = IF suboptimal THEN "Suboptimal" ELSE "Ok",
                          !.acquired = n,
                          !.ops = Append(@, "acquire")]
       ELSE /\ image_num' = image_num
            /\ recreate_swapchain' = FlagAfterAcquireError(result)
            /\ swapchain' = [swapchain EXCEPT
                               !.outOfDate = @ \/ result = "OutOfDate"]
            /\ call' = [call EXCEPT !.acquire = result,
                                    !.ops = Append(@, "acquire")]
    /\ UNCHANGED <<windowSize, images, framebuffers, viewport,
                   previous_frame_end, command_buffer, nextFuture, nextGen,
                   gpu, game_state>>

\* FramebufferFor always taking the first framebuffer.
FramebufferFor_First(n) == framebuffers[1]

\* The framebuffer the render pass begins on for image n.
FramebufferFor(n) == framebuffers[n + 1]

\* Building the command buffer: the render pass begins on
\* framebuffers[image_num]; an index out of range panics.
Record ==
    /\ pc = "record"
    /\ IF image_num < Len(framebuffers)
       THEN /\ command_buffer' = [framebuffer |-> FramebufferFor(image_num),
                                  built |-> TRUE]
            /\ pc' = "submit"
            /\ call' = [call EXCEPT
                          !.ops = Append(@, "record"),
                          !.recorded = FramebufferFor(image_num).image,
                          !.draws = Draws(call.data)]
       ELSE /\ command_buffer' = command_buffer
            /\ pc' = "aborted"
            /\ call' = [call EXCEPT !.ops = Append(@, "record")]
    /\ UNCHANGED <<windowSize, renderer, image_num, nextFuture, nextGen, gpu, game_state>>

\* FrameEnd putting the future of the call's entry back after a flush error.
FrameEnd_KeepOld(result, id) ==
    IF result = "Ok" THEN FenceSignalFuture(id) ELSE call.futureAtEntry

\* FrameEnd storing nothing after a flush error.
FrameEnd_NoneOnError(result, id) ==
    IF result = "Ok" THEN FenceSignalFuture(id) ELSE NoFuture

\* What is stored in previous_frame_end for each result of
\* then_signal_fence_and_flush.
FrameEnd(result, id) ==
    IF result = "Ok" THEN FenceSignalFuture(id) ELSE Now(id)

\* FlagAfterFlush assigning the flag from the result.
FlagAfterFlush_Assign(result) == result = "OutOfDate"

\* FlagAfterFlush setting the flag on every error.
FlagAfterFlush_AnyError(result) ==
    IF result # "Ok" THEN TRUE ELSE recreate_swapchain

\* The flag after then_signal_fence_and_flush.
FlagAfterFlush(result) ==
    IF result = "OutOfDate" THEN TRUE ELSE recreate_swapchain

\* The order of the chain built on previous_frame_end: execute, then present,
\* then fence and flush.
SubmitOps == <<"execute", "present", "flush">>

\* previous_frame_end is taken, joined with the acquire future, the command
\* buffer is executed after it, the present of image_num on the swapchain is
\* enqueued behind, and the whole is fenced and flushed; the result is stored.
Submit(result) ==
    /\ pc = "submit"
    /\ IF previous_frame_end = NoFuture
       THEN /\ pc' = "aborted"
            /\ UNCHANGED <<renderer, locals, nextFuture, call>>
       ELSE /\ previous_frame_end' = FrameEnd(result, nextFuture)
            /\ nextFuture' = nextFuture + 1
            /\ recreate_swapchain' = FlagAfterFlush(result)
            /\ swapchain' = [swapchain EXCEPT
                               !.outOfDate = @ \/ result = "OutOfDate"]
            /\ call' = [call EXCEPT
                          !.flush = result,
                          !.ops = @ \o SubmitOps,
                          !.staleAtSubmit = Stale,
                          !.presented = [gen |-> swapchain.gen,
                                         index |-> image_num,
                                         dimensions |-> swapchain.dimensions]]
            /\ image_num' = -1
            /\ command_buffer' = NoCommandBuffer
            /\ pc' = "idle"
            /\ UNCHANGED <<images, framebuffers, viewport>>
    /\ UNCHANGED <<windowSize, nextGen, game_state>>

\* Submit, the queue not followed.
SubmitFrame(result) == Submit(result) /\ UNCHANGED gpu

----------------------------------------------------------------------------
(* The queue and the GPU.  A command buffer given to then_execute starts      *)
(* only once the future it was chained on has signalled; the GPU runs beside  *)
(* the application thread.                                                    *)

\* ChainedOn executing after the acquire future alone.
ChainedOn_AcquireOnly(previous) == [previous |-> Now(0), acquire |-> TRUE]

\* What the command buffer is executed after: previous_frame_end, taken,
\* joined with the acquire future.
ChainedOn(previous) == [previous |-> previous, acquire |-> TRUE]

\* A future has signalled: sync::now at once, the fence of a flushed frame
\* when the work of that frame is finished.
Signalled(future) ==
    \/ future.kind = "now"
    \/ \E i \in 1..Len(gpu) :
          gpu[i].fence = future.id /\ gpu[i].state = "finished"

\* The submission of this call's command buffer.  held is the future
\* previous_frame_end held when the call was entered; fence is the future a
\* successful flush returns (0 when the flush failed).
Submission(result) ==
    [frame           |-> call.n,
     chained         |-> ChainedOn(previous_frame_end),
     held            |-> call.futureAtEntry,
     fence           |-> IF result = "Ok" THEN nextFuture ELSE 0,
     acquireSignalled |-> FALSE,
     state           |-> "queued",
     afterHeld       |-> FALSE,
     afterAcquire    |-> FALSE]

\* Submit, the queue followed: a successful flush has put the command buffer
\* on the queue; a failed one may have or may not.
SubmitToQueue(result, enqueued) ==
    /\ Submit(result)
    /\ gpu' = IF result = "Ok" \/ enqueued
              THEN Append(gpu, Submission(result))
              ELSE gpu

\* The acquired image of submission i becomes available: its acquire future
\* signals.
AcquireSignal(i) ==
    /\ ~gpu[i].acquireSignalled
    /\ gpu' = [gpu EXCEPT ![i].acquireSignalled = TRUE]
    /\ UNCHANGED <<windowSize, renderer, pc, locals, nextFuture, nextGen, call,
                   game_state>>

\* The command buffer of submission i starts: the submissions before it have
\* started and what it was chained on has signalled.
GpuStart(i) ==
    /\ gpu[i].state = "queued"
    /\ \A j \in 1..(i - 1) : gpu[j].state # "queued"
    /\ Signalled(gpu[i].chained.previous)
    /\ gpu[i].chained.acquire => gpu[i].acquireSignalled
    /\ gpu' = [gpu EXCEPT ![i].state = "running",
                          ![i].afterHeld = Signalled(gpu[i].held),
                          ![i].afterAcquire = gpu[i].acquireSignalled]
    /\ UNCHANGED <<windowSize, renderer, pc, locals, nextFuture, nextGen, call,
                   game_state>>

\* The work of submission i is finished.
GpuFinish(i) ==
    /\ gpu[i].state = "running"
    /\ gpu' = [gpu EXCEPT ![i].state = "finished"]
    /\ UNCHANGED <<windowSize, renderer, pc, locals, nextFuture, nextGen, call,
                   game_state>>

----------------------------------------------------------------------------

Results == {"Ok", "OutOfDate", "Other"}

\* The window events and the redraw calls.  The keyboard events are followed
\* in SpecGame: they change game_state alone, which redraw does not read.
Next ==
    \/ \E size \in Sizes : Resized(size)
    \/ CloseRequested
    \/ RedrawEventsCleared
    \/ \E result \in {"Ok", "UnsupportedDimensions", "Other"} :
          RecreateSwapchain(result)
    \/ SkipRecreate
    \/ \E result \in Results, n \in 0..(MinImageCount - 1), suboptimal \in BOOLEAN :
          AcquireNextImage(result, n, suboptimal)
    \/ Record
    \/ \E result \in Results : SubmitFrame(result)

Spec == Init /\ [][Next]_vars

\* The redraw calls together with the GPU.  The window events are left out:
\* they touch neither the futures nor the queue.
NextGpu ==
    \/ RedrawEventsCleared
    \/ \E result \in {"Ok", "UnsupportedDimensions", "Other"} :
          RecreateSwapchain(result)
    \/ SkipRecreate
    \/ \E result \in Results, n \in 0..(MinImageCount - 1), suboptimal \in BOOLEAN :
          AcquireNextImage(result, n, suboptimal)
    \/ Record
    \/ \E result \in Results, enqueued \in BOOLEAN :
          SubmitToQueue(result, enqueued)
    \/ \E i \in 1..Len(gpu) : AcquireSignal(i)
    \/ \E i \in 1..Len(gpu) : GpuStart(i)
    \/ \E i \in 1..Len(gpu) : GpuFinish(i)

SpecGpu == Init /\ [][NextGpu]_vars

----------------------------------------------------------------------------
(* The event loop running forever.  The calls are not counted and the       *)
(* identities of swapchains and futures are not followed, so that the loop  *)
(* can go round any number of times; the steps are those of redraw above.   *)

\* Event::RedrawEventsCleared, once more: the history starts afresh.
LiveRedrawEventsCleared ==
    /\ pc = "idle"
    /\ pc' = IF previous_frame_end = NoFuture THEN "aborted" ELSE "entered"
    /\ call' = [NewCall EXCEPT !.n = 0,
                               !.flagAtEntry = FALSE,
                               !.futureAtEntry = NoFuture,
                               !.prevAcquire = "None",
                               !.ops = <<"cleanup">>,
                               !.data = render]
    /\ UNCHANGED <<windowSize, renderer, locals, nextFuture, nextGen, gpu>>
    /\ game_state' = update(game_state)

\* recreate_swapchain(), called from redraw when the flag is set.
LiveRecreateSwapchain(result) ==
    /\ pc = "entered"
    /\ NeedsRecreate
    /\ LET dimensions == windowSize
           r == IF result = "Ok"
                THEN Recreated(NewSwapchain(nextGen, dimensions))
                ELSE NotRecreated
       IN  /\ swapchain' = r.swapchain
           /\ framebuffers' = r.framebuffers
           /\ viewport' = r.viewport
           /\ recreate_swapchain' = r.recreate_swapchain
    /\ pc' = AfterRecreate(result)
    /\ call' = [call EXCEPT !.recreate = result, !.ops = Append(@, "recreate")]
    /\ UNCHANGED <<windowSize, images, previous_frame_end, locals, nextFuture,
                   nextGen, gpu, game_state>>

\* The submission, the present and the flush, and the result stored.
LiveSubmit(result) ==
    /\ pc = "submit"
    /\ IF previous_frame_end = NoFuture
       THEN /\ pc' = "aborted"
            /\ UNCHANGED <<renderer, locals, call>>
       ELSE /\ previous_frame_end' = FrameEnd(result, nextFuture)
            /\ recreate_swapchain' = FlagAfterFlush(result)
            /\ swapchain' = [swapchain EXCEPT
                               !.outOfDate = @ \/ result = "OutOfDate"]
            /\ call' = [call EXCEPT !.flush = result, !.ops = @ \o SubmitOps]
            /\ image_num' = -1
            /\ command_buffer' = NoCommandBuffer
            /\ pc' = "idle"
            /\ UNCHANGED <<images, framebuffers, viewport>>
    /\ UNCHANGED <<windowSize, nextFuture, nextGen, gpu, game_state>>

\* The steps of a redraw call that has been entered.
LiveRedraw ==
    \/ \E result \in {"Ok", "UnsupportedDimensions", "Other"} :
          LiveRecreateSwapchain(result)
    \/ SkipRecreate
    \/ \E result \in Results, n \in 0..(MinImageCount - 1), suboptimal \in BOOLEAN :
          AcquireNextImage(result, n, suboptimal)
    \/ Record
    \/ \E result \in Results : LiveSubmit(result)

NextLive ==
    \/ \E size \in Sizes : Resized(size)
    \/ CloseRequested
    \/ LiveRedrawEventsCleared
    \/ LiveRedraw

\* redraw is straight-line code on the event-loop thread: once entered, it
\* goes on to its return (or its panic).
SpecLive == Init /\ [][NextLive]_vars /\ WF_vars(LiveRedraw)

----------------------------------------------------------------------------
(* The game: the keyboard events and the update of every tick.  The redraw  *)
(* call of the tick is not followed here; call.n counts the ticks.          *)

\* WindowEvent::KeyboardInput with a key code.
KeyboardInput(key, state) ==
    /\ pc = "idle"
    /\ call.n < MaxKeyTicks
    /\ game_state' = KeyChange(game_state, key, state)
    /\ UNCHANGED <<windowSize, renderer, pc, locals, nextFuture, nextGen, call,
                   gpu>>

\* Event::RedrawEventsCleared: update(&mut game_state).
UpdateGameState ==
    /\ pc = "idle"
    /\ call.n < MaxTicks
    /\ game_state' = update(game_state)
    /\ call' = [call EXCEPT !.n = @ + 1]
    /\ UNCHANGED <<windowSize, renderer, pc, locals, nextFuture, nextGen, gpu>>

NextGame ==
    \/ \E key \in {"A", "F", "D", "Escape"}, state \in {"Pressed", "Released"} :
          KeyboardInput(key, state)
    \/ UpdateGameState

SpecGame == Init /\ [][NextGame]_vars

----------------------------------------------------------------------------
(* Properties *)

Range(seq) == {seq[i] : i \in 1..Len(seq)}

\* A redraw call has been made and has returned to the event loop.
Returned == call.n > 0 /\ pc \in {"idle", "exited"}

\* This step is recreate_swapchain() getting `result` from the platform.
RecreateStep(result) == pc = "entered" /\ call'.recreate = result

\* C1: a redraw call whose acquire reports OutOfDate has returned, without
\* executing a command buffer and without a present, and with the flag set;
\* and the flag is set at the entry of the call that follows it.
C1_OutOfDateDropsFrame ==
    /\ call.acquire = "OutOfDate" =>
          /\ Returned
          /\ "execute" \notin Range(call.ops)
          /\ "present" \notin Range(call.ops)
          /\ recreate_swapchain
    /\ call.prevAcquire = "OutOfDate" => call.flagAtEntry

\* A call that followed one dropped for an out-of-date acquire has begun.
C1_Witness == call.prevAcquire = "OutOfDate" /\ call.n >= 2

\* C2: a redraw call whose acquire succeeds as suboptimal has, once it has
\* returned, executed its command buffer and enqueued the present of the image
\* it acquired on the swapchain it acquired it from; the flag is set from the
\* acquire on and at the entry of the call that follows.
C2_SuboptimalStillPresents ==
    /\ (call.acquire = "Suboptimal" /\ Returned) =>
          /\ "execute" \in Range(call.ops)
          /\ "present" \in Range(call.ops)
          /\ call.presented.index = call.acquired
          /\ call.presented.gen = swapchain.gen
    /\ call.acquire = "Suboptimal" => recreate_swapchain /\ pc # "aborted"
    /\ call.prevAcquire = "Suboptimal" => call.flagAtEntry

\* A call that followed a suboptimal, presented frame has begun.
C2_Witness ==
    /\ call.prevAcquire = "Suboptimal"
    /\ call.n >= 2
    /\ previous_frame_end.kind = "fence"

\* C3: a redraw call whose recreation reported UnsupportedDimensions makes no
\* acquire, records nothing, executes nothing and presents nothing.
C3_SkipReturnsImmediately ==
    call.recreate = "UnsupportedDimensions" =>
        Range(call.ops) \cap {"acquire", "record", "execute", "present"} = {}

\* C4 as stated: after every redraw call that returned, previous_frame_end is
\* another object than at the entry of the call.
C4_AlwaysNewFuture ==
    Returned => previous_frame_end.id # call.futureAtEntry.id

\* C4 amended: after a redraw call that acquired an image, whatever the flush
\* reported, previous_frame_end holds another object than at the entry of the
\* call; after a call that dropped its frame on an out-of-date acquire it
\* holds the same object.
C4_NewFutureUnlessDropped ==
    Returned =>
        /\ previous_frame_end # NoFuture
        /\ IF call.acquire \in {"Ok", "Suboptimal"}
           THEN previous_frame_end.id # call.futureAtEntry.id
           ELSE previous_frame_end = call.futureAtEntry

\* A call whose flush failed has returned.
C4_Witness == Returned /\ call.flush = "Other"

\* C5: no redraw call submits and presents on a stale swapchain.
C5_NeverSubmitsStale == ~call.staleAtSubmit

\* C6: when recreate_swapchain() gets UnsupportedDimensions, the swapchain,
\* the images, the framebuffers and the viewport are unchanged, the flag is
\* still set and the program has not aborted.
C6_UnsupportedLeavesAll ==
    [][RecreateStep("UnsupportedDimensions") =>
          /\ UNCHANGED <<swapchain, images, framebuffers, viewport>>
          /\ recreate_swapchain'
          /\ pc' # "aborted"]_vars

\* recreate_swapchain() has returned on UnsupportedDimensions, at a window
\* size that differs from the swapchain's.
C6_Witness ==
    /\ call.recreate = "UnsupportedDimensions"
    /\ pc = "acquire"
    /\ swapchain.dimensions # windowSize

\* C7: the flag goes from true to false only in a successful recreation, and
\* is false right after every successful recreation.
C7_FlagClearedOnlyByRecreate ==
    [][/\ (recreate_swapchain /\ ~recreate_swapchain') => RecreateStep("Ok")
       /\ RecreateStep("Ok") => ~recreate_swapchain']_vars

\* A successful recreation has cleared the flag, and the frame was presented
\* with the flag still clear.
C7_Witness ==
    /\ call.recreate = "Ok"
    /\ call.flagAtEntry
    /\ call.flush = "Ok"
    /\ ~recreate_swapchain

\* C8: right after every successful recreation there is at least one
\* framebuffer, every framebuffer has the size the window has at that time,
\* and so has the viewport.
C8_RecreatedSizeIsWindowSize ==
    [][RecreateStep("Ok") =>
          /\ Len(framebuffers') > 0
          /\ \A i \in 1..Len(framebuffers') :
                framebuffers'[i].image.dimensions = windowSize
          /\ viewport' = windowSize]_vars

\* A second successful recreation has run, at another size than the first
\* swapchain's.
C8_Witness ==
    /\ call.recreate = "Ok"
    /\ swapchain.gen >= 2
    /\ swapchain.dimensions # images[1].dimensions

\* C9: between callbacks, when the flag is false the swapchain and every
\* framebuffer have the window's size.
C9_FlagFalseImpliesSizesMatch ==
    (pc \in {"idle", "exited"} /\ ~recreate_swapchain) =>
        /\ swapchain.dimensions = windowSize
        /\ \A i \in 1..Len(framebuffers) :
              framebuffers[i].image.dimensions = windowSize

\* Between callbacks, after a resize to another size and a recreation, the
\* flag is false.
C9_Witness ==
    /\ pc = "idle"
    /\ ~recreate_swapchain
    /\ swapchain.gen > 0
    /\ swapchain.dimensions # images[1].dimensions

\* C10: when the flush fails, redraw stores a new already-complete future,
\* sets the flag exactly when the error is OutOfDate, and returns; that
\* future is the one held until the next call.
C10_FlushErrorSubstitutesNow ==
    /\ [][(pc = "submit" /\ call'.flush \in {"OutOfDate", "Other"}) =>
            /\ previous_frame_end'.kind = "now"
            /\ previous_frame_end'.id # previous_frame_end.id
            /\ recreate_swapchain' =
                 (recreate_swapchain \/ call'.flush = "OutOfDate")
            /\ pc' = "idle"]_vars
    /\ [](call.flush \in {"OutOfDate", "Other"} =>
            previous_frame_end.kind = "now" /\ pc # "aborted")

\* A flush failed with another error than OutOfDate and the flag is not set.
C10_Witness ==
    /\ Returned
    /\ call.flush = "Other"
    /\ ~recreate_swapchain

\* C11: every command buffer that has started on the GPU started after the
\* future held from the previous redraw had signalled and after the acquire
\* future of its frame had signalled.
C11_StartsAfterBothFutures ==
    \A i \in 1..Len(gpu) :
        gpu[i].state # "queued" => gpu[i].afterHeld /\ gpu[i].afterAcquire

\* The command buffer of a frame that followed a flushed frame is running.
C11_Witness ==
    \E i \in 1..Len(gpu) :
        /\ gpu[i].state = "running"
        /\ gpu[i].held.kind = "fence"
        /\ gpu[i].frame >= 2

\* The acquire, the recording, the submission, the present and the flush of
\* a frame, in the order redraw makes them.
FrameOps == <<"acquire", "record", "execute", "present", "flush">>

\* C13: in a redraw call that has enqueued a present, the command buffer was
\* recorded and given to the queue before the present, and the image
\* presented is the one acquire returned and the one of the framebuffer
\* recorded into.
C13_PresentAfterExecuteSameImage ==
    "present" \in Range(call.ops) =>
        /\ \E j \in 1..Len(call.ops) :
              /\ call.ops[j] = "execute"
              /\ \E i \in 1..(j - 1) : call.ops[i] = "record"
              /\ \E k \in (j + 1)..Len(call.ops) : call.ops[k] = "present"
        /\ call.presented.index = call.acquired
        /\ call.recorded.index = call.acquired
        /\ call.recorded.gen = call.presented.gen

\* The second image of a recreated swapchain has been drawn into and
\* presented.
C13_Witness ==
    /\ Returned
    /\ call.presented.index = 1
    /\ call.presented.gen >= 1

\* C14: a redraw call that has recorded its command buffer has recorded one
\* draw call per batch it was given, in order, each with the instance count
\* of its batch.
C14_OneDrawPerBatch ==
    "record" \in Range(call.ops) =>
        /\ Len(call.draws) = Len(call.data)
        /\ \A i \in 1..Len(call.draws) :
              i <= Len(call.data) => call.draws[i].instances = Len(call.data[i])

\* C15: a redraw call entered with the flag false, whose acquire succeeds
\* and is not suboptimal and whose flush succeeds, makes one acquire, one
\* recording, one submission and one present, no recreation, and returns with
\* the flag false.
C15_PlainFrame ==
    [][(/\ pc = "submit"
        /\ ~call.flagAtEntry
        /\ call.acquire = "Ok"
        /\ call'.flush = "Ok") =>
          /\ call'.ops = <<"cleanup">> \o FrameOps
          /\ call'.recreate = "None"
          /\ ~recreate_swapchain'
          /\ pc' = "idle"]_vars

\* Such a call has returned.
C15_Witness ==
    /\ Returned
    /\ ~call.flagAtEntry
    /\ call.acquire = "Ok"
    /\ call.flush = "Ok"
    /\ ~recreate_swapchain

C17_AlwaysSomeFuture ==
    /\ previous_frame_end # NoFuture
    /\ previous_frame_end.kind \in {"now", "fence"}

\* A redraw call is entered after a call whose flush failed.
C17_Witness ==
    /\ pc = "entered"
    /\ call.n >= 2
    /\ call.futureAtEntry.kind = "now"
    /\ call.futureAtEntry.id > 0

\* C18: the swapchain, the framebuffers and the viewport change only in the
\* recreation step of a redraw call entered with the flag set; a step of the
\* event loop outside redraw, a resize, sets the flag and leaves the
\* swapchain, the images, the framebuffers, the viewport and
\* previous_frame_end as they are.
C18_ChangesOnlyInFlaggedRedraw ==
    [][/\ (\/ swapchain'.gen # swapchain.gen
           \/ swapchain'.dimensions # swapchain.dimensions
           \/ framebuffers' # framebuffers
           \/ viewport' # viewport) =>
             (pc = "entered" /\ call.flagAtEntry /\ call.n > 0)
       /\ (pc = "idle" /\ pc' = "idle") =>
             /\ recreate_swapchain'
             /\ UNCHANGED <<swapchain, images, framebuffers, viewport,
                            previous_frame_end>>]_vars

\* After a flushed frame the window has been resized to another size.
C18_Witness ==
    /\ pc = "idle"
    /\ call.flush = "Ok"
    /\ previous_frame_end.kind = "fence"
    /\ recreate_swapchain
    /\ swapchain.dimensions # windowSize
    /\ ~swapchain.outOfDate
    /\ call.acquire = "Ok"

\* C19: there is one framebuffer per image of the current swapchain, the
\* i-th built on its i-th image, and the image number acquire returned is an
\* index of the framebuffers.
C19_FramebufferPerImage ==
    /\ Len(framebuffers) = MinImageCount
    /\ \A i \in 1..Len(framebuffers) :
          framebuffers[i].image =
              SwapchainImages(swapchain.gen, swapchain.dimensions)[i]
    /\ pc = "record" => image_num \in 0..(Len(framebuffers) - 1)

\* The last image of a recreated swapchain has been acquired.
C19_Witness ==
    /\ pc = "record"
    /\ swapchain.gen >= 1
    /\ image_num = MinImageCount - 1

\* C20: a redraw call attempts the recreation at most once; once past the
\* test it has attempted it exactly when the flag was set at its entry, and
\* then before the acquire; the call that follows a frame dropped for an
\* out-of-date acquire attempts it before it acquires, and when its
\* recreation, acquire and flush succeed it makes the whole frame.
C20_RecreateOnceIffFlagged ==
    /\ Cardinality({i \in 1..Len(call.ops) : call.ops[i] = "recreate"}) <= 1
    /\ (call.n > 0 /\ pc # "entered") =>
          (("recreate" \in Range(call.ops)) <=> call.flagAtEntry)
    /\ "recreate" \in Range(call.ops) =>
          /\ call.ops[2] = "recreate"
          /\ \A i \in 1..2 : call.ops[i] # "acquire"
    /\ (call.prevAcquire = "OutOfDate" /\ "acquire" \in Range(call.ops)) =>
          "recreate" \in Range(call.ops)
    /\ (/\ call.prevAcquire = "OutOfDate"
        /\ call.recreate = "Ok"
        /\ call.acquire = "Ok"
        /\ call.flush = "Ok") =>
          /\ call.ops = <<"cleanup", "recreate">> \o FrameOps
          /\ Returned

\* The call after a frame dropped for an out-of-date acquire has recreated
\* the swapchain and presented its frame.
C20_Witness ==
    /\ Returned
    /\ call.prevAcquire = "OutOfDate"
    /\ call.recreate = "Ok"
    /\ call.acquire = "Ok"
    /\ call.flush = "Ok"

\* C22: a redraw call whose acquire reports OutOfDate has returned with the
\* flag set, previous_frame_end holding the future it held at the entry, no
\* command buffer recorded and no instance buffer allocated; entering the
\* call, skipping the recreation and the failed acquire leave every other
\* field of the renderer as it was.
C22_DroppedFrameChangesNothing ==
    /\ [](call.acquire = "OutOfDate" =>
            /\ Returned
            /\ recreate_swapchain
            /\ previous_frame_end = call.futureAtEntry
            /\ command_buffer = NoCommandBuffer
            /\ call.draws = <<>>
            /\ \A i \in 1..Len(call.ops) : call.ops[i] # "record")
    /\ [][(pc = "acquire" /\ call'.acquire = "OutOfDate") =>
            /\ swapchain'.gen = swapchain.gen
            /\ swapchain'.dimensions = swapchain.dimensions
            /\ UNCHANGED <<windowSize, images, framebuffers, viewport,
                           previous_frame_end, locals, nextFuture, nextGen,
                           gpu>>]_vars
    /\ [][((pc = "idle" /\ call'.n # call.n)
            \/ (pc = "entered" /\ call'.recreate = "None" /\ pc' = "acquire")) =>
            UNCHANGED <<windowSize, renderer, locals, nextFuture, nextGen,
                        gpu>>]_vars

\* A call has recreated the swapchain and then dropped its frame on an
\* out-of-date acquire, a fence future pending.
C22_Witness ==
    /\ Returned
    /\ call.acquire = "OutOfDate"
    /\ call.recreate = "Ok"
    /\ previous_frame_end.kind = "fence"

\* C23: once a recreation has succeeded, the images field, the framebuffers
\* and the swapchain are of the same swapchain generation.
C23_ImagesOfCurrentSwapchain ==
    swapchain.gen >= 1 =>
        /\ \A i \in 1..Len(images) : images[i].gen = swapchain.gen
        /\ \A i \in 1..Len(framebuffers) :
              framebuffers[i].image.gen = swapchain.gen

\* A step in which the platform refuses the window's dimensions, or reports
\* the swapchain out of date or suboptimal.
PlatformRefuses ==
    \/ pc = "entered" /\ call'.recreate = "UnsupportedDimensions"
    \/ pc = "acquire" /\ call'.acquire \in {"OutOfDate", "Suboptimal"}
    \/ pc = "submit" /\ call'.flush = "OutOfDate"

\* The flag is false and the swapchain has the window's size.
Settled == ~recreate_swapchain /\ swapchain.dimensions = windowSize

\* C21: if from some point on the window is not resized and the platform
\* neither refuses the window's dimensions nor reports out-of-date or
\* suboptimal, and redraw is called again and again, then from some point on
\* the flag is false and the swapchain has the window's size.
C21_EventuallySettled ==
    (/\ <>[][~(\E size \in Sizes : Resized(size))]_vars
     /\ <>[][~PlatformRefuses]_vars
     /\ []<><<LiveRedrawEventsCleared>>_vars)
        => <>[]Settled

\* After a resize to another size, a call has recreated the swapchain and
\* presented a frame on it: the flag is false and the sizes agree.
C21_Witness ==
    /\ pc = "idle"
    /\ Settled
    /\ call.recreate = "Ok"
    /\ call.flush = "Ok"
    /\ swapchain.dimensions # images[1].dimensions

\* C24: after every update call the ship and every asteroid have both
\* coordinates within [-1, 1].
C24_PositionsWrapped ==
    call.n > 0 =>
        /\ game_state.x \in (0 - One)..One
        /\ game_state.y \in (0 - One)..One
        /\ \A i \in 1..Len(game_state.asteroids) :
              /\ game_state.asteroids[i].x \in (0 - One)..One
              /\ game_state.asteroids[i].y \in (0 - One)..One

====
